---- MODULE Spec2Model ----
(***************************************************************************)
(* Model of the CatService of meownder-backend (package services): the     *)
(* concurrent, deduplicated batch generator GenerateCatURLs, its workers,  *)
(* the detached cleanCache sweep and the GetBatchCount reader.             *)
(*                                                                         *)
(* Every goroutine is a process with a program counter; every statement    *)
(* that touches shared state (a mutex, recentURLs, batchCount, urls) is a  *)
(* step of its own, so that all interleavings Go permits are explored.     *)
(***************************************************************************)
EXTENDS Integers, Sequences, FiniteSets, TLC

(***************************************************************************)
(* Bounds of the model.                                                    *)
(***************************************************************************)
\* Number of GenerateCatURLs calls issued (each may overlap the others).
MaxCalls == 2
\* Number of worker goroutines launched over all calls: every call is given a
\* count between 0 and what is left of this budget.
MaxWorkers == 2
\* Distinct wall-clock readings time.Now().UnixNano() can return.
MaxTimestamp == 1
\* Distinct values of the random salt (the code draws from [0, 1000000)).
MaxRand == 2
\* Number of GetBatchCount calls issued by the health collaborator.
MaxReads == 2
\* Number of concurrent GET /cats requests to the standalone server of main.go.
MaxRequests == 3

(***************************************************************************)
(* Program constants.                                                      *)
(***************************************************************************)
\* maxRetries := 3
maxRetries == 3
\* currentBatch%10 == 0
BatchTrigger == 10
\* len(s.recentURLs) > 50
CacheLimit == 50

Calls == 1..MaxCalls
Indexes == 0..(MaxWorkers - 1)
Counts == 1..MaxWorkers
Timestamps == 1..MaxTimestamp
\* Outcome of rand.Int(rand.Reader, big.NewInt(1000000)): a value or an error.
EntropyOutcomes == [err : BOOLEAN, n : 0..(MaxRand - 1)]

\* The zero value of a string variable.
NoURL == ""
\* An unlocked sync.Mutex / sync.RWMutex has no owner.
NoOwner == <<>>
\* Goroutine identities, used as mutex owners.
CallerId(c) == <<"call", c>>
WorkerId(c, i) == <<"worker", c, i>>
CleanerId(c) == <<"clean", c>>
HealthId == <<"health">>

VARIABLES
  \* ---- CatService fields ----
  batchCount,     \* s.batchCount
  recentURLs,     \* s.recentURLs: the set of keys mapped to true
  countMutex,     \* s.countMutex: its owner
  cacheWriter,    \* s.cacheMutex: the goroutine holding it exclusively
  cacheReaders,   \* s.cacheMutex: the goroutines holding it shared
  \* ---- one GenerateCatURLs call ----
  cpc,            \* position of the calling goroutine
  count,          \* the argument
  currentBatch,   \* local currentBatch
  urls,           \* local slice urls
  urlMutex,       \* local urlMutex: its owner
  ret,            \* the returned triple
  \* ---- one worker goroutine of a call ----
  wpc,            \* position of the worker
  retry,          \* loop variable retry
  catURL,         \* local catURL.URL
  isDuplicate,    \* local isDuplicate
  \* ---- go s.cleanCache() spawned by a call ----
  cleaner,
  \* ---- GetBatchCount ----
  hpc, hret,
  \* ---- history (not program state) ----
  prior,              \* batchCount in the initial state
  stale,              \* worker's candidate was cached when synthesized and has not been evicted since
  returnedSinceReset, \* addresses handed to callers since the cache was last reset
  hits,               \* per call: candidates that met the cache or another candidate (2 = two or more)
  hprev, hreads,      \* previous GetBatchCount result, number of reads completed
  \* ---- the standalone server of main.go ----
  mainBatchCount, \* package variable batchCount of main.go
  rpc,            \* position of the goroutine serving a request
  loaded,         \* batchCount++: the value read before it is written back
  mainBatch,      \* catHandler's local currentBatch
  response        \* what the handler wrote

svcVars == <<batchCount, recentURLs, countMutex, cacheWriter, cacheReaders>>
callVars == <<cpc, count, currentBatch, urls, urlMutex, ret>>
workerVars == <<wpc, retry, catURL, isDuplicate>>
healthVars == <<hpc, hret, hprev, hreads>>
mainVars == <<mainBatchCount, rpc, loaded, mainBatch, response>>
keptVars == <<prior, hits, mainVars>>
histVars == <<keptVars, stale, returnedSinceReset>>
vars == <<svcVars, callVars, workerVars, cleaner, healthVars, histVars>>

(***************************************************************************)
(* generateCatURL: the address is the base URL with the timestamp and the  *)
(* salt as query parameters; an entropy error degrades to salt 0.          *)
(***************************************************************************)
baseURL == "https://cataas.com/cat"

randNum(e) == IF e.err THEN 0 ELSE e.n

generateCatURL(timestamp, e) ==
  baseURL \o "?timestamp=" \o ToString(timestamp) \o "&rand=" \o ToString(randNum(e))

\* n addresses admitted by earlier batches (synthesized at an earlier clock reading).
OldURLs(n) == { generateCatURL(0, [err |-> FALSE, n |-> k]) : k \in 1..n }

(***************************************************************************)
(* NewCatService: empty cache, counter 0, all mutexes unlocked.            *)
(***************************************************************************)
NewCatService ==
  /\ recentURLs = {}
  /\ batchCount = 0

\* The service after BatchTrigger-1 earlier batches that have all returned and
\* left the cache one entry short of the eviction threshold.
AgedCatService ==
  /\ recentURLs = OldURLs(CacheLimit - 1)
  /\ batchCount = BatchTrigger - 1

Requests == 1..MaxRequests
NoResponse == [status |-> 0, batch |-> 0]

\* var ( recentURLs = make(map[string]bool); cacheMutex sync.RWMutex; batchCount = 0 )
MainInit ==
  /\ mainBatchCount = 0
  /\ rpc = [r \in Requests |-> "idle"]
  /\ loaded = [r \in Requests |-> 0]
  /\ mainBatch = [r \in Requests |-> 0]
  /\ response = [r \in Requests |-> NoResponse]

Init ==
  /\ (NewCatService \/ AgedCatService)
  /\ prior = batchCount
  /\ hits = [c \in Calls |-> 0]
  /\ MainInit
  /\ countMutex = NoOwner
  /\ cacheWriter = NoOwner
  /\ cacheReaders = {}
  /\ cpc = [c \in Calls |-> "idle"]
  /\ count = [c \in Calls |-> 0]
  /\ currentBatch = [c \in Calls |-> 0]
  /\ urls = [c \in Calls |-> <<>>]
  /\ urlMutex = [c \in Calls |-> NoOwner]
  /\ ret = [c \in Calls |-> [urls |-> <<>>, batch |-> 0, err |-> FALSE]]
  /\ wpc = [c \in Calls |-> [i \in Indexes |-> "none"]]
  /\ retry = [c \in Calls |-> [i \in Indexes |-> 0]]
  /\ catURL = [c \in Calls |-> [i \in Indexes |-> NoURL]]
  /\ isDuplicate = [c \in Calls |-> [i \in Indexes |-> FALSE]]
  /\ cleaner = [c \in Calls |-> "none"]
  /\ hpc = "idle"
  /\ hret = 0
  /\ hprev = 0
  /\ hreads = 0
  /\ stale = [c \in Calls |-> [i \in Indexes |-> FALSE]]
  /\ returnedSinceReset = {}

(***************************************************************************)
(* GenerateCatURLs: the calling goroutine.                                 *)
(***************************************************************************)
\* Workers the calls entered so far launch.
RECURSIVE Launched(_)
Launched(c) == IF c = 0 THEN 0 ELSE (IF count[c] > 0 THEN count[c] ELSE 0) + Launched(c - 1)

\* A request arrives: GenerateCatURLs(n) is entered. Calls are numbered in the
\* order they are entered.
StartCall(c, n) ==
  /\ cpc[c] = "idle"
  /\ \A d \in Calls : d < c => cpc[d] # "idle"
  /\ n + Launched(MaxCalls) <= MaxWorkers
  /\ count' = [count EXCEPT ![c] = n]
  /\ cpc' = [cpc EXCEPT ![c] = "countLock"]
  /\ UNCHANGED <<svcVars, currentBatch, urls, urlMutex, ret, workerVars, cleaner, healthVars, histVars>>

\* Variant: the counter is not guarded (the caller proceeds without the mutex).
CountLockUnguarded(c) ==
  /\ cpc[c] = "countLock"
  /\ cpc' = [cpc EXCEPT ![c] = "increment"]
  /\ UNCHANGED <<svcVars, count, currentBatch, urls, urlMutex, ret, workerVars, cleaner, healthVars, histVars>>

\* s.countMutex.Lock()
CountLock(c) ==
  /\ cpc[c] = "countLock"
  /\ countMutex = NoOwner
  /\ countMutex' = CallerId(c)
  /\ cpc' = [cpc EXCEPT ![c] = "increment"]
  /\ UNCHANGED <<batchCount, recentURLs, cacheWriter, cacheReaders, count, currentBatch, urls, urlMutex, ret, workerVars, cleaner, healthVars, histVars>>

\* Variant: the counter counts images, not batches.
IncrementByCount(c) ==
  /\ cpc[c] = "increment"
  /\ batchCount' = batchCount + count[c]
  /\ cpc' = [cpc EXCEPT ![c] = "capture"]
  /\ UNCHANGED <<recentURLs, countMutex, cacheWriter, cacheReaders, count, currentBatch, urls, urlMutex, ret, workerVars, cleaner, healthVars, histVars>>

\* s.batchCount++
Increment(c) ==
  /\ cpc[c] = "increment"
  /\ batchCount' = batchCount + 1
  /\ cpc' = [cpc EXCEPT ![c] = "capture"]
  /\ UNCHANGED <<recentURLs, countMutex, cacheWriter, cacheReaders, count, currentBatch, urls, urlMutex, ret, workerVars, cleaner, healthVars, histVars>>

\* currentBatch := s.batchCount
Capture(c) ==
  /\ cpc[c] = "capture"
  /\ currentBatch' = [currentBatch EXCEPT ![c] = batchCount]
  /\ cpc' = [cpc EXCEPT ![c] = "countUnlock"]
  /\ UNCHANGED <<svcVars, count, urls, urlMutex, ret, workerVars, cleaner, healthVars, histVars>>

\* s.countMutex.Unlock()
CountUnlock(c) ==
  /\ cpc[c] = "countUnlock"
  /\ countMutex' = IF countMutex = CallerId(c) THEN NoOwner ELSE countMutex
  /\ cpc' = [cpc EXCEPT ![c] = "spawn"]
  /\ UNCHANGED <<batchCount, recentURLs, cacheWriter, cacheReaders, count, currentBatch, urls, urlMutex, ret, workerVars, cleaner, healthVars, histVars>>

\* Variant: the launch loop runs for i <= count.
SpawnOneMore(c) ==
  /\ cpc[c] = "spawn"
  /\ count[c] >= 0
  /\ urls' = [urls EXCEPT ![c] = <<>>]
  /\ wpc' = [wpc EXCEPT ![c] = [i \in Indexes |-> IF i <= count[c] THEN "synth" ELSE "none"]]
  /\ retry' = [retry EXCEPT ![c] = [i \in Indexes |-> 0]]
  /\ cpc' = [cpc EXCEPT ![c] = "wait"]
  /\ UNCHANGED <<svcVars, count, currentBatch, urlMutex, ret, catURL, isDuplicate, cleaner, healthVars, histVars>>

\* urls := make([]string, 0, count); for i := 0; i < count; i++ { wg.Add(1); go func(index int) {...}(i) }
Spawn(c) ==
  /\ cpc[c] = "spawn"
  /\ count[c] >= 0
  /\ urls' = [urls EXCEPT ![c] = <<>>]
  /\ wpc' = [wpc EXCEPT ![c] = [i \in Indexes |-> IF i < count[c] THEN "synth" ELSE "none"]]
  /\ retry' = [retry EXCEPT ![c] = [i \in Indexes |-> 0]]
  /\ cpc' = [cpc EXCEPT ![c] = "wait"]
  /\ UNCHANGED <<svcVars, count, currentBatch, urlMutex, ret, catURL, isDuplicate, cleaner, healthVars, histVars>>

\* urls := make([]string, 0, count) with count < 0: makeslice panics (cap out
\* of range) and the calling goroutine unwinds; countMutex was released.
MakePanic(c) ==
  /\ cpc[c] = "spawn"
  /\ count[c] < 0
  /\ cpc' = [cpc EXCEPT ![c] = "panicked"]
  /\ UNCHANGED <<svcVars, count, currentBatch, urls, urlMutex, ret, workerVars, cleaner, healthVars, histVars>>

\* A worker has run its deferred wg.Done().
Finished(c, i) == wpc[c][i] \in {"none", "admitted", "exhausted"}

\* Variant: the caller proceeds as soon as one worker has finished.
WaitFirst(c) == \E i \in Indexes : Finished(c, i)

\* wg.Wait() returns once the WaitGroup counter is zero.
WaitDone(c) == \A i \in Indexes : Finished(c, i)

Wait(c) ==
  /\ cpc[c] = "wait"
  /\ WaitDone(c)
  /\ cpc' = [cpc EXCEPT ![c] = "trigger"]
  /\ UNCHANGED <<svcVars, count, currentBatch, urls, urlMutex, ret, workerVars, cleaner, healthVars, histVars>>

\* currentBatch%10 == 0
EvictionDue(b) == b % BatchTrigger = 0

\* Variant: the sweep is triggered only by a batch that produced something.
TriggerUnlessEmpty(c) ==
  /\ cpc[c] = "trigger"
  /\ cleaner' = [cleaner EXCEPT ![c] =
       IF EvictionDue(currentBatch[c]) /\ Len(urls[c]) > 0 THEN "spawned" ELSE "none"]
  /\ cpc' = [cpc EXCEPT ![c] = "return"]
  /\ UNCHANGED <<svcVars, count, currentBatch, urls, urlMutex, ret, workerVars, healthVars, histVars>>

\* if currentBatch%10 == 0 { go s.cleanCache() }
Trigger(c) ==
  /\ cpc[c] = "trigger"
  /\ cleaner' = [cleaner EXCEPT ![c] = IF EvictionDue(currentBatch[c]) THEN "spawned" ELSE "none"]
  /\ cpc' = [cpc EXCEPT ![c] = "return"]
  /\ UNCHANGED <<svcVars, count, currentBatch, urls, urlMutex, ret, workerVars, healthVars, histVars>>

\* Variant: a batch of fewer than two addresses is reported as a failure.
ResultNeedsTwo(u, b) ==
  IF Len(u) <= 1
    THEN [urls |-> <<>>, batch |-> 0, err |-> TRUE]
    ELSE [urls |-> u, batch |-> b, err |-> FALSE]

\* if len(urls) == 0 { return nil, 0, err }; return urls, currentBatch, nil
Result(u, b) ==
  IF Len(u) = 0
    THEN [urls |-> <<>>, batch |-> 0, err |-> TRUE]
    ELSE [urls |-> u, batch |-> b, err |-> FALSE]

Range(s) == { s[k] : k \in 1..Len(s) }

\* Variant: the call returns only after the cleanCache it spawned has ended.
ReturnAfterCleaner(c) ==
  /\ cpc[c] = "return"
  /\ cleaner[c] \in {"none", "done"}
  /\ ret' = [ret EXCEPT ![c] = Result(urls[c], currentBatch[c])]
  /\ cpc' = [cpc EXCEPT ![c] = "returned"]
  /\ returnedSinceReset' = returnedSinceReset \cup Range(Result(urls[c], currentBatch[c]).urls)
  /\ UNCHANGED <<svcVars, count, currentBatch, urls, urlMutex, workerVars, cleaner, healthVars, keptVars, stale>>

Return(c) ==
  /\ cpc[c] = "return"
  /\ ret' = [ret EXCEPT ![c] = Result(urls[c], currentBatch[c])]
  /\ cpc' = [cpc EXCEPT ![c] = "returned"]
  /\ returnedSinceReset' = returnedSinceReset \cup Range(Result(urls[c], currentBatch[c]).urls)
  /\ UNCHANGED <<svcVars, count, currentBatch, urls, urlMutex, workerVars, cleaner, healthVars, keptVars, stale>>

(***************************************************************************)
(* The worker goroutine: for retry := 0; retry < maxRetries; retry++       *)
(***************************************************************************)
\* History: the workers of call d, other than worker i of call c, whose current
\* candidate is u.
Clash(c, i, u, d) == { j \in Indexes : <<d, j>> # <<c, i>> /\ catURL[d][j] = u }

\* History: 1 when d = c and the candidate u of worker i of call c is cached,
\* is the current candidate of another worker, or is already in the call's
\* collection.
OwnHit(c, i, u, d) ==
  IF /\ d = c
     /\ \/ u \in recentURLs
        \/ u \in Range(urls[c])
        \/ \E b \in Calls : Clash(c, i, u, b) # {}
    THEN 1 ELSE 0

Saturate(n) == IF n > 2 THEN 2 ELSE n

\* catURL := s.generateCatURL()
Synthesize(c, i, t, e) ==
  /\ wpc[c][i] = "synth"
  /\ catURL' = [catURL EXCEPT ![c][i] = generateCatURL(t, e)]
  /\ stale' = [stale EXCEPT ![c][i] = generateCatURL(t, e) \in recentURLs]
  /\ wpc' = [wpc EXCEPT ![c][i] = "rlock"]
  /\ hits' = [d \in Calls |-> Saturate(hits[d] + OwnHit(c, i, generateCatURL(t, e), d) + Cardinality(Clash(c, i, generateCatURL(t, e), d)))]
  /\ UNCHANGED <<svcVars, callVars, retry, isDuplicate, cleaner, healthVars, prior, mainVars, returnedSinceReset>>

\* s.cacheMutex.RLock()
RLock(c, i) ==
  /\ wpc[c][i] = "rlock"
  /\ cacheWriter = NoOwner
  /\ cacheReaders' = cacheReaders \cup {WorkerId(c, i)}
  /\ wpc' = [wpc EXCEPT ![c][i] = "check"]
  /\ UNCHANGED <<batchCount, recentURLs, countMutex, cacheWriter, callVars, retry, catURL, isDuplicate, cleaner, healthVars, histVars>>

\* Variant: the cache is probed with a key it never holds (the reference's id).
LookupById(cache, key) == ("cat-" \o key) \in cache

\* s.recentURLs[key]: a missing key reads as false.
Lookup(cache, key) == key \in cache

\* Variant: the membership test is negated.
CheckNegated(c, i) ==
  /\ wpc[c][i] = "check"
  /\ isDuplicate' = [isDuplicate EXCEPT ![c][i] = ~Lookup(recentURLs, catURL[c][i])]
  /\ wpc' = [wpc EXCEPT ![c][i] = "runlock"]
  /\ UNCHANGED <<svcVars, callVars, retry, catURL, cleaner, healthVars, histVars>>

\* isDuplicate := s.recentURLs[catURL.URL]
Check(c, i) ==
  /\ wpc[c][i] = "check"
  /\ isDuplicate' = [isDuplicate EXCEPT ![c][i] = Lookup(recentURLs, catURL[c][i])]
  /\ wpc' = [wpc EXCEPT ![c][i] = "runlock"]
  /\ UNCHANGED <<svcVars, callVars, retry, catURL, cleaner, healthVars, histVars>>

\* Variant: RUnlock is called only on the admission branch.
RUnlockOnlyIfFresh(c, i) ==
  /\ wpc[c][i] = "runlock"
  /\ cacheReaders' = IF isDuplicate[c][i] THEN cacheReaders ELSE cacheReaders \ {WorkerId(c, i)}
  /\ wpc' = [wpc EXCEPT ![c][i] = IF isDuplicate[c][i] THEN "sleep" ELSE "lock"]
  /\ UNCHANGED <<batchCount, recentURLs, countMutex, cacheWriter, callVars, retry, catURL, isDuplicate, cleaner, healthVars, histVars>>

\* s.cacheMutex.RUnlock(); if !isDuplicate {...} else {...}
RUnlock(c, i) ==
  /\ wpc[c][i] = "runlock"
  /\ cacheReaders' = cacheReaders \ {WorkerId(c, i)}
  /\ wpc' = [wpc EXCEPT ![c][i] = IF isDuplicate[c][i] THEN "sleep" ELSE "lock"]
  /\ UNCHANGED <<batchCount, recentURLs, countMutex, cacheWriter, callVars, retry, catURL, isDuplicate, cleaner, healthVars, histVars>>

\* Variant: the exclusive lock is granted while shared holders remain.
LockIgnoringReaders(c, i) ==
  /\ wpc[c][i] = "lock"
  /\ cacheWriter = NoOwner
  /\ cacheWriter' = WorkerId(c, i)
  /\ wpc' = [wpc EXCEPT ![c][i] = "insert"]
  /\ UNCHANGED <<batchCount, recentURLs, countMutex, cacheReaders, callVars, retry, catURL, isDuplicate, cleaner, healthVars, histVars>>

\* s.cacheMutex.Lock()
Lock(c, i) ==
  /\ wpc[c][i] = "lock"
  /\ cacheWriter = NoOwner
  /\ cacheReaders = {}
  /\ cacheWriter' = WorkerId(c, i)
  /\ wpc' = [wpc EXCEPT ![c][i] = "insert"]
  /\ UNCHANGED <<batchCount, recentURLs, countMutex, cacheReaders, callVars, retry, catURL, isDuplicate, cleaner, healthVars, histVars>>

\* s.recentURLs[catURL.URL] = true
Insert(c, i) ==
  /\ wpc[c][i] = "insert"
  /\ recentURLs' = recentURLs \cup {catURL[c][i]}
  /\ wpc' = [wpc EXCEPT ![c][i] = "unlock"]
  /\ UNCHANGED <<batchCount, countMutex, cacheWriter, cacheReaders, callVars, retry, catURL, isDuplicate, cleaner, healthVars, histVars>>

\* s.cacheMutex.Unlock()
Unlock(c, i) ==
  /\ wpc[c][i] = "unlock"
  /\ cacheWriter' = IF cacheWriter = WorkerId(c, i) THEN NoOwner ELSE cacheWriter
  /\ wpc' = [wpc EXCEPT ![c][i] = "urlLock"]
  /\ UNCHANGED <<batchCount, recentURLs, countMutex, cacheReaders, callVars, retry, catURL, isDuplicate, cleaner, healthVars, histVars>>

\* urlMutex.Lock()
UrlLock(c, i) ==
  /\ wpc[c][i] = "urlLock"
  /\ urlMutex[c] = NoOwner
  /\ urlMutex' = [urlMutex EXCEPT ![c] = WorkerId(c, i)]
  /\ wpc' = [wpc EXCEPT ![c][i] = "append"]
  /\ UNCHANGED <<svcVars, cpc, count, currentBatch, urls, ret, retry, catURL, isDuplicate, cleaner, healthVars, histVars>>

\* urls = append(urls, catURL.URL)
AppendURL(c, i) ==
  /\ wpc[c][i] = "append"
  /\ urls' = [urls EXCEPT ![c] = Append(urls[c], catURL[c][i])]
  /\ wpc' = [wpc EXCEPT ![c][i] = "urlUnlock"]
  /\ UNCHANGED <<svcVars, cpc, count, currentBatch, urlMutex, ret, retry, catURL, isDuplicate, cleaner, healthVars, histVars>>

\* Variant: the break is missing, the loop goes on to its delay.
UrlUnlockNoBreak(c, i) ==
  /\ wpc[c][i] = "urlUnlock"
  /\ urlMutex' = [urlMutex EXCEPT ![c] = IF urlMutex[c] = WorkerId(c, i) THEN NoOwner ELSE urlMutex[c]]
  /\ wpc' = [wpc EXCEPT ![c][i] = "sleep"]
  /\ catURL' = [catURL EXCEPT ![c][i] = NoURL]
  /\ isDuplicate' = [isDuplicate EXCEPT ![c][i] = FALSE]
  /\ stale' = [stale EXCEPT ![c][i] = FALSE]
  /\ UNCHANGED <<svcVars, cpc, count, currentBatch, urls, ret, retry, cleaner, healthVars, keptVars, returnedSinceReset>>

\* urlMutex.Unlock(); break
UrlUnlock(c, i) ==
  /\ wpc[c][i] = "urlUnlock"
  /\ urlMutex' = [urlMutex EXCEPT ![c] = IF urlMutex[c] = WorkerId(c, i) THEN NoOwner ELSE urlMutex[c]]
  /\ wpc' = [wpc EXCEPT ![c][i] = "break"]
  /\ catURL' = [catURL EXCEPT ![c][i] = NoURL]
  /\ isDuplicate' = [isDuplicate EXCEPT ![c][i] = FALSE]
  /\ stale' = [stale EXCEPT ![c][i] = FALSE]
  /\ UNCHANGED <<svcVars, cpc, count, currentBatch, urls, ret, retry, cleaner, healthVars, keptVars, returnedSinceReset>>

\* Variant: the loop variable is not advanced.
NextAttemptStuck(r) == r

\* retry++
NextAttempt(r) == r + 1

\* Variant: the worker gives up after its first collision.
SleepGiveUp(c, i) ==
  /\ wpc[c][i] = "sleep"
  /\ retry' = [retry EXCEPT ![c][i] = NextAttempt(retry[c][i])]
  /\ wpc' = [wpc EXCEPT ![c][i] = "giveUp"]
  /\ catURL' = [catURL EXCEPT ![c][i] = NoURL]
  /\ isDuplicate' = [isDuplicate EXCEPT ![c][i] = FALSE]
  /\ stale' = [stale EXCEPT ![c][i] = FALSE]
  /\ UNCHANGED <<svcVars, callVars, cleaner, healthVars, keptVars, returnedSinceReset>>

\* time.Sleep(100 * time.Millisecond); retry++; retry < maxRetries, else the loop ends
Sleep(c, i) ==
  /\ wpc[c][i] = "sleep"
  /\ retry' = [retry EXCEPT ![c][i] = NextAttempt(retry[c][i])]
  /\ wpc' = [wpc EXCEPT ![c][i] = IF NextAttempt(retry[c][i]) < maxRetries THEN "synth" ELSE "giveUp"]
  /\ catURL' = [catURL EXCEPT ![c][i] = NoURL]
  /\ isDuplicate' = [isDuplicate EXCEPT ![c][i] = FALSE]
  /\ stale' = [stale EXCEPT ![c][i] = FALSE]
  /\ UNCHANGED <<svcVars, callVars, cleaner, healthVars, keptVars, returnedSinceReset>>

\* defer wg.Done(): runs when the closure returns, after the break or after
\* the last attempt.
Done(c, i) ==
  /\ wpc[c][i] \in {"break", "giveUp"}
  /\ wpc' = [wpc EXCEPT ![c][i] = IF wpc[c][i] = "break" THEN "admitted" ELSE "exhausted"]
  /\ UNCHANGED <<svcVars, callVars, retry, catURL, isDuplicate, cleaner, healthVars, histVars>>

(***************************************************************************)
(* cleanCache, run as a detached goroutine.                                *)
(***************************************************************************)
\* s.cacheMutex.Lock()
CleanLock(c) ==
  /\ cleaner[c] = "spawned"
  /\ cacheWriter = NoOwner
  /\ cacheReaders = {}
  /\ cacheWriter' = CleanerId(c)
  /\ cleaner' = [cleaner EXCEPT ![c] = "sweep"]
  /\ UNCHANGED <<batchCount, recentURLs, countMutex, cacheReaders, callVars, workerVars, healthVars, histVars>>

\* Variant: the threshold is taken as reached at 50 entries.
OverLimitInclusive(cache) == Cardinality(cache) >= CacheLimit

\* len(s.recentURLs) > 50
OverLimit(cache) == Cardinality(cache) > CacheLimit

\* if len(s.recentURLs) > 50 { s.recentURLs = make(map[string]bool) }
Swept(cache) == IF OverLimit(cache) THEN {} ELSE cache

CleanSweep(c) ==
  /\ cleaner[c] = "sweep"
  /\ recentURLs' = Swept(recentURLs)
  /\ cleaner' = [cleaner EXCEPT ![c] = "unlock"]
  /\ returnedSinceReset' = IF Swept(recentURLs) = recentURLs THEN returnedSinceReset ELSE {}
  /\ stale' = IF Swept(recentURLs) = recentURLs THEN stale ELSE [d \in Calls |-> [i \in Indexes |-> FALSE]]
  /\ UNCHANGED <<batchCount, countMutex, cacheWriter, cacheReaders, callVars, workerVars, healthVars, keptVars>>

\* defer s.cacheMutex.Unlock()
\* Variant: cleanCache ends without releasing the lock (no deferred Unlock).
CleanUnlockMissing(c) ==
  /\ cleaner[c] = "unlock"
  /\ cleaner' = [cleaner EXCEPT ![c] = "done"]
  /\ UNCHANGED <<svcVars, callVars, workerVars, healthVars, histVars>>

CleanUnlock(c) ==
  /\ cleaner[c] = "unlock"
  /\ cacheWriter' = IF cacheWriter = CleanerId(c) THEN NoOwner ELSE cacheWriter
  /\ cleaner' = [cleaner EXCEPT ![c] = "done"]
  /\ UNCHANGED <<batchCount, recentURLs, countMutex, cacheReaders, callVars, workerVars, healthVars, histVars>>

(***************************************************************************)
(* GetBatchCount, called by the health handler.                            *)
(***************************************************************************)
\* h.service.GetBatchCount() is entered.
StartRead ==
  /\ hpc = "idle"
  /\ hreads < MaxReads
  /\ hpc' = "lock"
  /\ UNCHANGED <<svcVars, callVars, workerVars, cleaner, hret, hprev, hreads, histVars>>

\* Variant: the counter is read without the mutex.
ReadLockUnguarded ==
  /\ hpc = "lock"
  /\ hpc' = "read"
  /\ UNCHANGED <<svcVars, callVars, workerVars, cleaner, hret, hprev, hreads, histVars>>

\* s.countMutex.Lock()
ReadLock ==
  /\ hpc = "lock"
  /\ countMutex = NoOwner
  /\ countMutex' = HealthId
  /\ hpc' = "read"
  /\ UNCHANGED <<batchCount, recentURLs, cacheWriter, cacheReaders, callVars, workerVars, cleaner, hret, hprev, hreads, histVars>>

\* return s.batchCount (the result is evaluated before the deferred Unlock runs)
ReadCount ==
  /\ hpc = "read"
  /\ hprev' = hret
  /\ hret' = batchCount
  /\ hpc' = "unlock"
  /\ UNCHANGED <<svcVars, callVars, workerVars, cleaner, hreads, histVars>>

\* defer s.countMutex.Unlock()
ReadUnlock ==
  /\ hpc = "unlock"
  /\ countMutex' = IF countMutex = HealthId THEN NoOwner ELSE countMutex
  /\ hreads' = hreads + 1
  /\ hpc' = "idle"
  /\ UNCHANGED <<batchCount, recentURLs, cacheWriter, cacheReaders, callVars, workerVars, cleaner, hret, hprev, histVars>>

(***************************************************************************)
(* The system.                                                             *)
(***************************************************************************)
CallerStep(c) ==
  \/ CountLock(c)
  \/ Increment(c)
  \/ Capture(c)
  \/ CountUnlock(c)
  \/ Spawn(c)
  \/ Wait(c)
  \/ Trigger(c)
  \/ Return(c)

WorkerStep(c, i) ==
  \/ \E t \in Timestamps, e \in EntropyOutcomes : Synthesize(c, i, t, e)
  \/ RLock(c, i)
  \/ Check(c, i)
  \/ RUnlock(c, i)
  \/ Lock(c, i)
  \/ Insert(c, i)
  \/ Unlock(c, i)
  \/ UrlLock(c, i)
  \/ AppendURL(c, i)
  \/ UrlUnlock(c, i)
  \/ Sleep(c, i)
  \/ Done(c, i)

CleanerStep(c) ==
  \/ CleanLock(c)
  \/ CleanSweep(c)
  \/ CleanUnlock(c)

ReaderStep ==
  \/ ReadLock
  \/ ReadCount
  \/ ReadUnlock

Next ==
  \/ \E c \in Calls, n \in Counts : StartCall(c, n)
  \/ \E c \in Calls : CallerStep(c)
  \/ \E c \in Calls, i \in Indexes : WorkerStep(c, i)
  \/ \E c \in Calls : CleanerStep(c)
  \/ StartRead
  \/ ReaderStep

Spec == Init /\ [][Next]_vars

(***************************************************************************)
(* Fairness: the Go scheduler eventually runs every runnable goroutine.    *)
(* The arrival of requests (StartCall, StartRead) is not forced.           *)
(***************************************************************************)
Fairness ==
  /\ \A c \in Calls : WF_vars(CallerStep(c))
  /\ \A c \in Calls : \A i \in Indexes : WF_vars(WorkerStep(c, i))
  /\ \A c \in Calls : WF_vars(CleanerStep(c))

\* The batch generator on its own.  GetBatchCount shares only countMutex with
\* it, never waits while holding it (ReadCount and ReadUnlock have no guard
\* but the reader's position) and changes nothing a call reads, so it can
\* delay CountLock but adds no behaviour of the calls, workers and sweeps.
NextBatch ==
  \/ \E c \in Calls, n \in Counts : StartCall(c, n)
  \/ \E c \in Calls : CallerStep(c)
  \/ \E c \in Calls, i \in Indexes : WorkerStep(c, i)
  \/ \E c \in Calls : CleanerStep(c)

\* GenerateCatURLs is exported: a caller other than the handler, which clamps
\* count to 1..10, can pass any int.
OtherCounts == { -1, 0 }

NextAnyCount ==
  \/ Next
  \/ \E c \in Calls, n \in OtherCounts : StartCall(c, n)
  \/ \E c \in Calls : MakePanic(c)

SpecAnyCount == Init /\ [][NextAnyCount]_vars

FairSpec == Init /\ [][NextBatch]_vars /\ Fairness

(***************************************************************************)
(* The standalone server of main.go.  net/http serves every request in a   *)
(* goroutine of its own; catHandler updates the package variable           *)
(* batchCount without any lock, so batchCount++ is a read and a write that *)
(* other requests' reads and writes can separate.                          *)
(***************************************************************************)
serviceVars == <<svcVars, callVars, workerVars, cleaner, healthVars, prior, hits, stale, returnedSinceReset>>

\* GET /cats reaches catHandler (method and count parameter accepted).
Receive(r) ==
  /\ rpc[r] = "idle"
  /\ rpc' = [rpc EXCEPT ![r] = "load"]
  /\ UNCHANGED <<serviceVars, mainBatchCount, loaded, mainBatch, response>>

\* batchCount++ : read
LoadCount(r) ==
  /\ rpc[r] = "load"
  /\ loaded' = [loaded EXCEPT ![r] = mainBatchCount]
  /\ rpc' = [rpc EXCEPT ![r] = "store"]
  /\ UNCHANGED <<serviceVars, mainBatchCount, mainBatch, response>>

\* batchCount++ : write
StoreCount(r) ==
  /\ rpc[r] = "store"
  /\ mainBatchCount' = loaded[r] + 1
  /\ rpc' = [rpc EXCEPT ![r] = "capture"]
  /\ UNCHANGED <<serviceVars, loaded, mainBatch, response>>

\* currentBatch := batchCount
CaptureCount(r) ==
  /\ rpc[r] = "capture"
  /\ mainBatch' = [mainBatch EXCEPT ![r] = mainBatchCount]
  /\ rpc' = [rpc EXCEPT ![r] = "respond"]
  /\ UNCHANGED <<serviceVars, mainBatchCount, loaded, response>>

\* The rest of catHandler: the workers fill urls (they touch recentURLs and
\* urls only); ok is len(urls) > 0.  200 with Batch: currentBatch, or 500.
Respond(r, ok) ==
  /\ rpc[r] = "respond"
  /\ response' = [response EXCEPT ![r] =
       IF ok THEN [status |-> 200, batch |-> mainBatch[r]] ELSE [status |-> 500, batch |-> 0]]
  /\ rpc' = [rpc EXCEPT ![r] = "done"]
  /\ UNCHANGED <<serviceVars, mainBatchCount, loaded, mainBatch>>

NextMain ==
  \/ \E r \in Requests : Receive(r)
  \/ \E r \in Requests : LoadCount(r)
  \/ \E r \in Requests : StoreCount(r)
  \/ \E r \in Requests : CaptureCount(r)
  \/ \E r \in Requests, ok \in BOOLEAN : Respond(r, ok)

SpecMain == Init /\ [][NextMain]_vars

(***************************************************************************)
(* Vocabulary of the properties.                                           *)
(***************************************************************************)
Started(c) == cpc[c] # "idle"
PassedIncrement(c) == cpc[c] \in {"capture", "countUnlock", "spawn", "wait", "trigger", "return", "returned", "panicked"}
Captured(c) == cpc[c] \in {"countUnlock", "spawn", "wait", "trigger", "return", "returned", "panicked"}
PastWait(c) == cpc[c] \in {"trigger", "return", "returned"}
Returned(c) == cpc[c] = "returned"
Succeeded(c) == Returned(c) /\ ~ret[c].err
Failed(c) == Returned(c) /\ ret[c].err
AdmittedWorkers(c) == { i \in Indexes : wpc[c][i] = "admitted" }
ExhaustedWorkers(c) == { i \in Indexes : wpc[c][i] = "exhausted" }
Distinct(s) == \A j, k \in 1..Len(s) : j # k => s[j] # s[k]

(***************************************************************************)
(* C1: for every successful GenerateCatURLs call the returned addresses    *)
(* are pairwise distinct, and every address is absent from recentURLs at   *)
(* the moment its worker inserts it (the worker holds cacheMutex           *)
(* exclusively and is about to execute the insert).                        *)
(* The membership check and the insert are two critical sections: two      *)
(* workers that synthesize the same address can both pass the check        *)
(* before either inserts.                                                  *)
(***************************************************************************)
C1_ReturnedDistinctAndFreshAtInsert ==
  /\ \A c \in Calls : Succeeded(c) => Distinct(ret[c].urls)
  /\ \A c \in Calls : \A i \in Indexes :
       wpc[c][i] = "insert" => catURL[c][i] \notin recentURLs

(***************************************************************************)
(* C2 as stated: once the calls that were entered (each with a positive    *)
(* count) have all returned, the batch numbers they returned are pairwise  *)
(* distinct and are exactly prior+1 .. prior+N.                            *)
(* A call that fails returns 0, not the number it captured.                *)
(***************************************************************************)
StartedCalls == { c \in Calls : Started(c) }
CapturedCalls == { c \in Calls : Captured(c) }

C2_ReturnedNumbersContiguous ==
  (StartedCalls # {} /\ \A c \in StartedCalls : Returned(c) /\ count[c] >= 1) =>
    /\ \A c, d \in StartedCalls : c # d => ret[c].batch # ret[d].batch
    /\ { ret[c].batch : c \in StartedCalls } = (prior + 1)..(prior + Cardinality(StartedCalls))

(***************************************************************************)
(* C2 amended: the batch numbers the calls have captured are pairwise      *)
(* distinct and are exactly prior+1 .. prior+(number of calls that have    *)
(* captured); a call that succeeds returns the number it captured, and a   *)
(* call that fails returns 0.                                              *)
(***************************************************************************)
C2_CapturedNumbersContiguous ==
  /\ \A c, d \in CapturedCalls : c # d => currentBatch[c] # currentBatch[d]
  /\ { currentBatch[c] : c \in CapturedCalls } = (prior + 1)..(prior + Cardinality(CapturedCalls))
  /\ \A c \in Calls : Succeeded(c) => ret[c].batch = currentBatch[c]
  /\ \A c \in Calls : Failed(c) => ret[c].batch = 0

\* Two calls are in flight together, both holding a captured number.
C2_Witness ==
  /\ cpc[1] = "wait" /\ cpc[2] = "wait"
  /\ count[1] = 1 /\ count[2] = 1
  /\ currentBatch[2] = currentBatch[1] + 1

(***************************************************************************)
(* C3: a call that has returned either reports an error with no addresses, *)
(* exactly when none of its workers was admitted, or reports no error, a   *)
(* non-empty collection and the batch number it captured.                  *)
(***************************************************************************)
C3_ErrorIffNoneAdmitted ==
  \A c \in Calls : Returned(c) =>
    /\ ret[c].err <=> AdmittedWorkers(c) = {}
    /\ ret[c].err => ret[c].urls = <<>>
    /\ ~ret[c].err => /\ ret[c].urls # <<>>
                      /\ Len(ret[c].urls) = Cardinality(AdmittedWorkers(c))
                      /\ ret[c].batch = currentBatch[c]

\* A call fails because its only worker used up its retries, and another succeeds.
C3_Witness ==
  \E c, d \in Calls :
    /\ Failed(c) /\ count[c] = 1 /\ ExhaustedWorkers(c) = {0}
    /\ Succeeded(d) /\ ret[d].urls # <<>>

(***************************************************************************)
(* C4: once wg.Wait() has returned (and so at the moment of return) every  *)
(* one of the call's count workers is Admitted or Exhausted.               *)
(***************************************************************************)
C4_ReturnsAfterAllWorkers ==
  \A c \in Calls : PastWait(c) =>
    \A i \in Indexes : i < count[c] => wpc[c][i] \in {"admitted", "exhausted"}

\* A call of two workers has returned: one was admitted, the other exhausted.
C4_Witness ==
  \E c \in Calls :
    /\ Returned(c) /\ count[c] = 2
    /\ wpc[c][0] = "exhausted" /\ wpc[c][1] = "admitted"

(***************************************************************************)
(* C5: under fair scheduling, a call that captured a multiple of 10 is     *)
(* followed by a completed cleanCache run; the sweep of any cleanCache run *)
(* empties the cache if it holds more than 50 entries at that moment and   *)
(* leaves it as it is otherwise; a call whose number is not a multiple of  *)
(* 10 spawns no cleanCache, and nothing but a sweep removes an entry.      *)
(***************************************************************************)
C5_EvictionOnEveryTenthBatch ==
  /\ \A c \in Calls :
       (Captured(c) /\ currentBatch[c] % BatchTrigger = 0) ~> (cleaner[c] = "done")
  /\ [][ \A c \in Calls :
           (cleaner[c] = "sweep" /\ cleaner'[c] = "unlock") =>
             IF Cardinality(recentURLs) > CacheLimit
               THEN recentURLs' = {}
               ELSE recentURLs' = recentURLs ]_vars
  /\ [][ ~(recentURLs \subseteq recentURLs') =>
           \E c \in Calls : cleaner[c] = "sweep" /\ cleaner'[c] = "unlock" ]_vars
  /\ [](\A c \in Calls :
          (Captured(c) /\ currentBatch[c] % BatchTrigger # 0) => cleaner[c] = "none")

\* The tenth batch has returned, its cleanCache has finished and found the
\* cache over the limit: the cache is empty.
C5_Witness ==
  \E c \in Calls :
    /\ Returned(c) /\ currentBatch[c] = BatchTrigger
    /\ cleaner[c] = "done"
    /\ recentURLs = {}

(***************************************************************************)
(* C6: a candidate that was in the cache when it was synthesized, and has  *)
(* not been evicted since, never gets past the membership check: its       *)
(* worker reads isDuplicate = true, inserts nothing, appends nothing and   *)
(* goes to the delay before its next attempt.                              *)
(***************************************************************************)
C6_CachedCandidateIsCollision ==
  \A c \in Calls : \A i \in Indexes :
    stale[c][i] =>
      /\ wpc[c][i] \in {"rlock", "check", "runlock", "sleep"}
      /\ wpc[c][i] \in {"runlock", "sleep"} => isDuplicate[c][i]
      /\ catURL[c][i] \in recentURLs

\* A worker is in the delay after colliding with an address that another
\* batch admitted earlier.
C6_Witness ==
  \E c, d \in Calls :
    /\ c # d
    /\ wpc[c][0] = "sleep" /\ stale[c][0] /\ isDuplicate[c][0]
    /\ Returned(d) /\ catURL[c][0] \in Range(ret[d].urls)

(***************************************************************************)
(* C7: every address returned to a caller since the cache was last reset   *)
(* is in the cache.                                                        *)
(* A cleanCache spawned by one batch can reset the cache after a worker of *)
(* another batch has inserted its address and before that batch returns.   *)
(***************************************************************************)
C7_ReturnedSinceResetAreCached ==
  returnedSinceReset \subseteq recentURLs

(***************************************************************************)
(* C8: the counter is the number of GenerateCatURLs calls that have passed *)
(* their increment: the calls that completed before the first state        *)
(* (none for a new service, whose counter is 0) plus the calls of the run  *)
(* that have executed s.batchCount++.                                      *)
(***************************************************************************)
C8_CounterCountsIncrements ==
  /\ batchCount = prior + Cardinality({ c \in Calls : PassedIncrement(c) })
  /\ prior = 0 \/ prior = BatchTrigger - 1
  /\ (prior = 0 /\ \A c \in Calls : ~PassedIncrement(c)) => batchCount = 0

\* Two calls of one worker each have passed their increment: one has failed,
\* the other is still waiting for its worker.
C8_Witness ==
  /\ batchCount = prior + 2
  /\ \E c, d \in Calls : Failed(c) /\ count[d] = 1 /\ cpc[d] = "wait"

(***************************************************************************)
(* C9: under fair scheduling every call that was entered returns; a worker *)
(* that is still running has made fewer than 3 attempts before the current *)
(* one, and no worker ever makes more than 3.                              *)
(***************************************************************************)
C9_EveryCallReturns ==
  /\ \A c \in Calls : Started(c) ~> Returned(c)
  /\ \A c \in Calls : \A i \in Indexes :
       (wpc[c][i] \notin {"none", "admitted", "exhausted"}) ~> (wpc[c][i] \in {"admitted", "exhausted"})
  /\ [](\A c \in Calls : \A i \in Indexes :
          /\ retry[c][i] <= maxRetries
          /\ wpc[c][i] \notin {"none", "giveUp", "admitted", "exhausted"} => retry[c][i] < maxRetries
          /\ wpc[c][i] \in {"giveUp", "exhausted"} => retry[c][i] = maxRetries)

\* Both calls have returned; a worker of one of them ran out of retries.
C9_Witness ==
  /\ \A c \in Calls : Returned(c)
  /\ \E c \in Calls : \E i \in Indexes : wpc[c][i] = "exhausted" /\ retry[c][i] = maxRetries

(***************************************************************************)
(* C10: the value GetBatchCount has read (it still holds countMutex) is    *)
(* the number of calls that have completed their increment, no call is     *)
(* between its increment and its unlock, the value is at least every       *)
(* batch number a call has captured, and it is not below the previous      *)
(* read.                                                                   *)
(***************************************************************************)
C10_ReadsAssignedCounter ==
  hpc = "unlock" =>
    /\ hret = prior + Cardinality({ c \in Calls : PassedIncrement(c) })
    /\ \A c \in Calls : cpc[c] \notin {"increment", "capture", "countUnlock"}
    /\ \A c \in Calls : Captured(c) => hret >= currentBatch[c]
    /\ hret >= hprev

\* The second read, taken while a call is waiting for its workers, returns
\* more than the first.
C10_Witness ==
  /\ hpc = "unlock" /\ hreads = 1
  /\ hret > hprev /\ hprev > prior
  /\ \E c \in Calls : cpc[c] = "wait" /\ count[c] > 0

(***************************************************************************)
(* C11: a call launches exactly count workers, the collection holds one    *)
(* entry per worker that has appended (each worker appends at most once),  *)
(* a successful call returns one entry per admitted worker, between 1 and  *)
(* count of them, and a call fails only when no worker was admitted.       *)
(***************************************************************************)
LaunchedWorkers(c) == { i \in Indexes : wpc[c][i] # "none" }
AppendedWorkers(c) == { i \in Indexes : wpc[c][i] \in {"urlUnlock", "break", "admitted"} }

C11_OneEntryPerAdmittedWorker ==
  \A c \in Calls :
    /\ cpc[c] \in {"wait", "trigger", "return", "returned"} =>
         /\ Cardinality(LaunchedWorkers(c)) = count[c]
         /\ LaunchedWorkers(c) = { i \in Indexes : i < count[c] }
         /\ Len(urls[c]) = Cardinality(AppendedWorkers(c))
    /\ Succeeded(c) =>
         /\ Len(ret[c].urls) = Cardinality(AdmittedWorkers(c))
         /\ 1 <= Len(ret[c].urls) /\ Len(ret[c].urls) <= count[c]
    /\ Failed(c) => AdmittedWorkers(c) = {}

\* A call of two workers has succeeded with one address: the other worker ran
\* out of retries.
C11_Witness ==
  \E c \in Calls :
    /\ Succeeded(c) /\ count[c] = 2
    /\ Len(ret[c].urls) = 1
    /\ ExhaustedWorkers(c) # {}

(***************************************************************************)
(* C12: a call with count >= 1 none of whose candidates was cached, in the *)
(* call's collection or equal to another worker's current candidate when   *)
(* it was synthesized (and none of whose current candidates was            *)
(* synthesized again by another worker) admits every worker on its first   *)
(* attempt and returns exactly count pairwise distinct addresses with the  *)
(* batch number it captured, one more than the counter held before its     *)
(* increment.                                                              *)
(***************************************************************************)
CapturedUpTo(c) == { d \in Calls : Captured(d) /\ currentBatch[d] <= currentBatch[c] }

C12_FreshCandidatesAllAdmitted ==
  \A c \in Calls :
    (count[c] >= 1 /\ hits[c] = 0) =>
      /\ \A i \in Indexes :
           /\ retry[c][i] = 0
           /\ ~isDuplicate[c][i]
           /\ wpc[c][i] \notin {"sleep", "giveUp", "exhausted"}
      /\ Distinct(urls[c])
      /\ Returned(c) =>
           /\ ~ret[c].err
           /\ Len(ret[c].urls) = count[c]
           /\ Distinct(ret[c].urls)
           /\ AdmittedWorkers(c) = { i \in Indexes : i < count[c] }
           /\ ret[c].batch = currentBatch[c]
           /\ ret[c].batch = prior + Cardinality(CapturedUpTo(c))

\* The tenth call of the service, of two workers, has returned two addresses
\* without any collision, both workers admitted on their first attempt.
C12_Witness ==
  \E c \in Calls :
    /\ Returned(c) /\ count[c] = 2 /\ hits[c] = 0
    /\ \A i \in Indexes : wpc[c][i] = "admitted" /\ retry[c][i] = 0
    /\ Len(ret[c].urls) = 2
    /\ prior = BatchTrigger - 1 /\ ret[c].batch = prior + 1

(***************************************************************************)
(* C13: a worker moves only along Synthesizing -> CollisionCheck ->        *)
(* (Admitted | Colliding -> Delay -> Synthesizing): it leaves the check    *)
(* for the admission path exactly when the address was not found in the    *)
(* cache and for the delay exactly when it was found, only the delay       *)
(* advances retry, a third collision ends the worker Exhausted, only a     *)
(* worker on the admission path inserts into the cache or appends to the   *)
(* collection, and no worker makes more than 3 attempts.                   *)
(***************************************************************************)
WorkerEdges ==
  { <<"none", "synth">>, <<"synth", "rlock">>, <<"rlock", "check">>, <<"check", "runlock">>,
    <<"runlock", "lock">>, <<"runlock", "sleep">>,
    <<"lock", "insert">>, <<"insert", "unlock">>, <<"unlock", "urlLock">>,
    <<"urlLock", "append">>, <<"append", "urlUnlock">>, <<"urlUnlock", "break">>,
    <<"break", "admitted">>, <<"sleep", "synth">>, <<"sleep", "giveUp">>, <<"giveUp", "exhausted">> }

WorkerMove(c, i) ==
  /\ wpc'[c][i] # wpc[c][i] => <<wpc[c][i], wpc'[c][i]>> \in WorkerEdges
  /\ (wpc[c][i] = "check" /\ wpc'[c][i] = "runlock") => (isDuplicate'[c][i] <=> catURL[c][i] \in recentURLs)
  /\ (wpc[c][i] = "runlock" /\ wpc'[c][i] = "lock") => ~isDuplicate[c][i]
  /\ (wpc[c][i] = "runlock" /\ wpc'[c][i] = "sleep") => isDuplicate[c][i]
  /\ retry'[c][i] # retry[c][i] => (wpc[c][i] = "sleep" /\ retry'[c][i] = retry[c][i] + 1)
  /\ (wpc[c][i] = "sleep" /\ wpc'[c][i] = "synth") => retry'[c][i] < 3
  /\ (wpc[c][i] = "sleep" /\ wpc'[c][i] = "giveUp") => retry'[c][i] = 3

CacheGrowsByAdmission ==
  \A u \in recentURLs' \ recentURLs :
    \E c \in Calls : \E i \in Indexes :
      wpc[c][i] = "insert" /\ wpc'[c][i] = "unlock" /\ catURL[c][i] = u

CollectionGrowsByAdmission ==
  \A c \in Calls :
    urls'[c] # urls[c] =>
      \/ cpc[c] = "spawn" /\ urls'[c] = <<>>
      \/ \E i \in Indexes :
           wpc[c][i] = "append" /\ wpc'[c][i] = "urlUnlock" /\ urls'[c] = Append(urls[c], catURL[c][i])

AttemptsBounded ==
  \A c \in Calls : \A i \in Indexes :
    /\ retry[c][i] <= 3
    /\ wpc[c][i] \in {"giveUp", "exhausted"} => retry[c][i] = 3
    /\ wpc[c][i] \in {"synth", "rlock", "check", "runlock", "sleep"} => retry[c][i] < 3
    /\ wpc[c][i] \in {"lock", "insert", "unlock", "urlLock", "append", "urlUnlock", "break", "admitted"} =>
         (retry[c][i] < 3 /\ ~isDuplicate[c][i])

C13_WorkerStateMachine ==
  /\ [][(\A c \in Calls : \A i \in Indexes : WorkerMove(c, i))
        /\ CacheGrowsByAdmission /\ CollectionGrowsByAdmission]_vars
  /\ []AttemptsBounded

\* A worker is exhausted after three collisions with the address of the other
\* worker of its call, which has appended and is about to finish.
C13_Witness ==
  \E c \in Calls : \E i, j \in Indexes :
    /\ cpc[c] = "wait"
    /\ wpc[c][i] = "exhausted" /\ retry[c][i] = 3
    /\ wpc[c][j] = "urlUnlock" /\ retry[c][j] = 0
    /\ Len(urls[c]) = 1

(***************************************************************************)
(* C14: a worker whose first k attempts collided (k = 1 or 2) and whose    *)
(* next attempt was not found in the cache is admitted on that attempt;    *)
(* and a call in which one candidate met the cache, its worker collided    *)
(* once, and every other candidate was fresh returns count pairwise        *)
(* distinct addresses.                                                     *)
(***************************************************************************)
RECURSIVE Collisions(_, _)
Collisions(c, n) == IF n = 0 THEN 0 ELSE retry[c][n - 1] + Collisions(c, n - 1)

FoundFreshAfter(c, i, k) == wpc[c][i] = "runlock" /\ ~isDuplicate[c][i] /\ retry[c][i] = k
AdmittedAfter(c, i, k) == wpc[c][i] = "admitted" /\ retry[c][i] = k

OneCollisionStillFull ==
  \A c \in Calls :
    (Returned(c) /\ count[c] >= 1 /\ hits[c] = 1 /\ Collisions(c, MaxWorkers) = 1) =>
      /\ ~ret[c].err
      /\ Len(ret[c].urls) = count[c]
      /\ Distinct(ret[c].urls)
      /\ AdmittedWorkers(c) = { i \in Indexes : i < count[c] }

C14_AdmittedAfterCollisions ==
  /\ \A c \in Calls : \A i \in Indexes : \A k \in 1..2 :
       FoundFreshAfter(c, i, k) ~> AdmittedAfter(c, i, k)
  /\ []OneCollisionStillFull

\* A call of two workers has returned two addresses although one of its
\* workers collided once and was admitted on its second attempt.
C14_Witness ==
  \E c \in Calls :
    /\ Returned(c) /\ count[c] = 2 /\ hits[c] = 1 /\ Collisions(c, MaxWorkers) = 1
    /\ \E i \in Indexes : AdmittedAfter(c, i, 1)
    /\ Len(ret[c].urls) = 2

(***************************************************************************)
(* C15: a worker in its retry delay holds neither cacheMutex (shared or    *)
(* exclusive) nor its call's urlMutex nor countMutex.                      *)
(***************************************************************************)
C15_DelayHoldsNoLock ==
  \A c \in Calls : \A i \in Indexes :
    wpc[c][i] = "sleep" =>
      /\ WorkerId(c, i) \notin cacheReaders
      /\ cacheWriter # WorkerId(c, i)
      /\ \A d \in Calls : urlMutex[d] # WorkerId(c, i)
      /\ countMutex # WorkerId(c, i)

\* While one worker is in its delay another goroutine holds cacheMutex
\* exclusively.
C15_Witness ==
  \E c \in Calls : \E i \in Indexes :
    /\ wpc[c][i] = "sleep"
    /\ cacheWriter # NoOwner

(***************************************************************************)
(* C16: a goroutine about to test membership holds cacheMutex shared, a    *)
(* goroutine about to insert into or reset the cache holds it exclusively, *)
(* the exclusive holder excludes every shared holder and every other       *)
(* writer, and a worker about to append holds its call's urlMutex.         *)
(***************************************************************************)
WorkersAt(pc) == { WorkerId(p[1], p[2]) : p \in { q \in Calls \X Indexes : wpc[q[1]][q[2]] = pc } }
CacheReading == WorkersAt("check")
CacheWriting == WorkersAt("insert") \cup { CleanerId(c) : c \in { d \in Calls : cleaner[d] = "sweep" } }
Appending(c) == { WorkerId(c, i) : i \in { j \in Indexes : wpc[c][j] = "append" } }

C16_CacheAccessSerialized ==
  /\ CacheReading \subseteq cacheReaders
  /\ \A w \in CacheWriting : cacheWriter = w
  /\ cacheWriter # NoOwner => cacheReaders = {}
  /\ CacheWriting # {} => CacheReading = {}
  /\ \A c \in Calls : \A w \in Appending(c) : urlMutex[c] = w

\* Two workers test membership at the same time, both holding the lock shared.
C16_Witness ==
  /\ Cardinality(CacheReading) = 2
  /\ Cardinality(cacheReaders) = 2

(***************************************************************************)
(* C17: a cleanCache goroutine exists only for a call whose workers have   *)
(* all finished and whose captured number is a multiple of 10, and the     *)
(* call never waits for it: whatever the goroutine's progress, a call that *)
(* has passed the trigger can return.                                      *)
(***************************************************************************)
C17_EvictionFireAndForget ==
  \A c \in Calls :
    /\ cleaner[c] # "none" =>
         /\ cpc[c] \in {"return", "returned"}
         /\ WaitDone(c)
         /\ EvictionDue(currentBatch[c])
    /\ cpc[c] = "return" => ENABLED Return(c)

\* A call has returned while the cleanCache it spawned has not started, and
\* a worker of another call is in the middle of its admission.
C17_Witness ==
  \E c, d \in Calls : \E i \in Indexes :
    /\ c # d
    /\ Returned(c) /\ cleaner[c] = "spawned"
    /\ wpc[d][i] = "insert"

(***************************************************************************)
(* C18: in the standalone server the requests that have taken a batch      *)
(* number hold pairwise different numbers, the successful responses report *)
(* pairwise different numbers, and once every received request has been    *)
(* served batchCount equals the number of requests served.                 *)
(* main.go increments and reads batchCount without a lock.                 *)
(***************************************************************************)
HasBatch(r) == rpc[r] \in {"respond", "done"}
Served == { r \in Requests : rpc[r] = "done" }

C18_MainBatchNumbersUnique ==
  /\ \A r, s \in Requests : (r # s /\ HasBatch(r) /\ HasBatch(s)) => mainBatch[r] # mainBatch[s]
  /\ \A r, s \in Served :
       (r # s /\ response[r].status = 200 /\ response[s].status = 200) => response[r].batch # response[s].batch
  /\ (\A r \in Requests : rpc[r] \in {"idle", "done"}) => mainBatchCount = Cardinality(Served)

(***************************************************************************)
(* C19: a call that fails with the empty-batch error has incremented the   *)
(* counter by exactly 1 (the counter is the prior value plus the number of *)
(* calls past their increment, failed ones included), has spawned          *)
(* cleanCache when the number it captured is a multiple of 10, and returns *)
(* batch number 0 and no collection; the successful calls return the       *)
(* numbers they captured, which are pairwise distinct and above the prior  *)
(* value.                                                                  *)
(* As claimed, every call with count <= 0 ends this way.  A call with      *)
(* count < 0 panics in make() after its increment.                         *)
(***************************************************************************)
Ended(c) == cpc[c] \in {"returned", "panicked"}

FailedCallCounted ==
  /\ batchCount = prior + Cardinality({ c \in Calls : PassedIncrement(c) })
  /\ \A c \in Calls :
       Failed(c) =>
         /\ currentBatch[c] > prior
         /\ ret[c].batch = 0 /\ ret[c].urls = <<>>
         /\ EvictionDue(currentBatch[c]) => cleaner[c] # "none"
  /\ \A c \in Calls : Succeeded(c) => (ret[c].batch = currentBatch[c] /\ ret[c].batch > prior)
  /\ \A c, d \in Calls : (c # d /\ Succeeded(c) /\ Succeeded(d)) => ret[c].batch # ret[d].batch

C19_EveryNonPositiveCountFails ==
  /\ FailedCallCounted
  /\ \A c \in Calls : (Ended(c) /\ count[c] <= 0) => Failed(c)

\* C19, amended: the calls with count = 0 fail with the empty-batch error; a
\* call with count < 0 has incremented the counter and captured its number,
\* then panics: it returns nothing and spawns no cleanCache.
C19_FailedCallStillCounted ==
  /\ FailedCallCounted
  /\ \A c \in Calls : (Returned(c) /\ count[c] = 0) => Failed(c)
  /\ \A c \in Calls : (Started(c) /\ count[c] < 0) => (~Returned(c) /\ cleaner[c] = "none")
  /\ \A c \in Calls :
       cpc[c] = "panicked" =>
         (count[c] < 0 /\ currentBatch[c] > prior /\ countMutex # CallerId(c) /\ ret[c].batch = 0)

\* The tenth call failed (count = 0) and spawned cleanCache; the call after
\* it succeeded with number prior + 2.
C19_Witness ==
  \E c, d \in Calls :
    /\ Failed(c) /\ count[c] = 0 /\ currentBatch[c] = BatchTrigger /\ cleaner[c] # "none"
    /\ Succeeded(d) /\ ret[d].batch = prior + 2

(***************************************************************************)
(* C20: no goroutine (caller, worker, cleanCache, GetBatchCount) holds two *)
(* of countMutex, cacheMutex and a urlMutex at once, a worker requesting   *)
(* cacheMutex exclusively no longer holds it shared, every goroutine that  *)
(* holds a lock can take its next step, and whenever some goroutine has    *)
(* not finished some goroutine can step: no reachable state is a deadlock. *)
(***************************************************************************)
Goroutines ==
  { CallerId(c) : c \in Calls } \cup { WorkerId(p[1], p[2]) : p \in Calls \X Indexes }
    \cup { CleanerId(c) : c \in Calls } \cup {HealthId}

LocksHeld(g) ==
  (IF countMutex = g THEN 1 ELSE 0)
  + (IF cacheWriter = g THEN 1 ELSE 0)
  + (IF g \in cacheReaders THEN 1 ELSE 0)
  + Cardinality({ c \in Calls : urlMutex[c] = g })

Unfinished ==
  \/ \E c \in Calls : cpc[c] \notin {"idle", "returned", "panicked"}
  \/ \E c \in Calls : \E i \in Indexes : ~Finished(c, i)
  \/ \E c \in Calls : cleaner[c] \notin {"none", "done"}
  \/ hpc # "idle"

GoroutineStep ==
  \/ \E c \in Calls : CallerStep(c)
  \/ \E c \in Calls, i \in Indexes : WorkerStep(c, i)
  \/ \E c \in Calls : CleanerStep(c)
  \/ ReaderStep

HolderCanStep ==
  /\ \A c \in Calls : LocksHeld(CallerId(c)) > 0 => ENABLED CallerStep(c)
  /\ \A c \in Calls : \A i \in Indexes : LocksHeld(WorkerId(c, i)) > 0 => ENABLED WorkerStep(c, i)
  /\ \A c \in Calls : LocksHeld(CleanerId(c)) > 0 => ENABLED CleanerStep(c)
  /\ LocksHeld(HealthId) > 0 => ENABLED ReaderStep

C20_NoNestedLocksNoDeadlock ==
  /\ \A g \in Goroutines : LocksHeld(g) <= 1
  /\ \A c \in Calls : \A i \in Indexes : wpc[c][i] = "lock" => WorkerId(c, i) \notin cacheReaders
  /\ HolderCanStep
  /\ Unfinished => ENABLED GoroutineStep

\* Every lock is taken by a different goroutine: a worker holds cacheMutex
\* shared while another worker waits for it exclusively, a third goroutine
\* holds countMutex.
C20_Witness ==
  /\ \E c, d \in Calls : \E i, j \in Indexes :
       /\ wpc[c][i] = "lock" /\ ~ENABLED Lock(c, i)
       /\ WorkerId(d, j) \in cacheReaders
  /\ countMutex # NoOwner

====
